---- MODULE Spec2Model ----
(***************************************************************************)
(* A model of the JWK codec of jwkset (src/jwk.go): KeyMarshal turns a key *)
(* into a JWKMarshal wire record, KeyUnmarshal turns a wire record back    *)
(* into a key.  Byte strings are sequences over 0..255, base64url text is  *)
(* a sequence of character codes (0..63 the alphabet, PadChar "=", one     *)
(* character outside the alphabet), big integers are naturals or Nil.      *)
(***************************************************************************)
EXTENDS Integers, Sequences, FiniteSets, TLC

VARIABLES meta, mopts, jwk, merr, uopts, umeta, uerr, origin, pc, crtChecked,
          revision, snapshot, snapshotFailed, jwks, jerr

vars == <<meta, mopts, jwk, merr, uopts, umeta, uerr, origin, pc, crtChecked,
          revision, snapshot, snapshotFailed, jwks, jerr>>

\* the variables of JWKSet.JSON
jsonVars == <<revision, snapshot, snapshotFailed, jwks, jerr>>

(***************************************************************************)
(* Bounds of the model.                                                    *)
(***************************************************************************)
\* most trailing "=" characters a received field carries
MaxPad == 2
\* most entries of "oth" in a received RSA record
MaxOth == 1
\* most keys in a snapshot of the store
MaxSnapshot == 2

(***************************************************************************)
(* Program constants.                                                      *)
(***************************************************************************)
\* the "=" of strings.TrimRight(s, "="), one past the 64 alphabet characters
PadChar == 64
\* ed25519.PublicKeySize
PublicKeySize == 32
\* ed25519.PrivateKeySize
PrivateKeySize == 64
\* the seed half of an ed25519.PrivateKey: key[:32]
SeedSize == 32

\* a character that is neither in the base64url alphabet nor "="
BadChar == PadChar + 1
\* a nil *big.Int
Nil == -1

(***************************************************************************)
(* encoding/base64 RawURLEncoding and math/big, as the helpers use them.   *)
(***************************************************************************)
RECURSIVE EncodeToString(_)
\* base64.RawURLEncoding.EncodeToString: 3 bytes -> 4 characters, a final
\* group of 1 byte -> 2 characters, of 2 bytes -> 3 characters, no padding.
EncodeToString(b) ==
    IF Len(b) = 0 THEN <<>>
    ELSE IF Len(b) = 1 THEN << b[1] \div 4, (b[1] % 4) * 16 >>
    ELSE IF Len(b) = 2 THEN
        LET v == b[1] * 256 + b[2]
        IN  << v \div 1024, (v \div 16) % 64, (v % 16) * 4 >>
    ELSE
        LET v == b[1] * 65536 + b[2] * 256 + b[3]
        IN  << v \div 262144, (v \div 4096) % 64, (v \div 64) % 64, v % 64 >>
            \o EncodeToString(SubSeq(b, 4, Len(b)))

RECURSIVE DecodeQuanta(_)
\* the bytes of a string of alphabet characters whose length is not 1 mod 4
DecodeQuanta(s) ==
    IF Len(s) = 0 THEN <<>>
    ELSE IF Len(s) = 2 THEN << (s[1] * 64 + s[2]) \div 16 >>
    ELSE IF Len(s) = 3 THEN
        LET v == s[1] * 4096 + s[2] * 64 + s[3]
        IN  << v \div 1024, (v \div 4) % 256 >>
    ELSE
        LET v == s[1] * 262144 + s[2] * 4096 + s[3] * 64 + s[4]
        IN  << v \div 65536, (v \div 256) % 256, v % 256 >>
            \o DecodeQuanta(SubSeq(s, 5, Len(s)))

\* base64.RawURLEncoding.DecodeString: a character outside the alphabet ("="
\* included) or a dangling single character is a CorruptInputError.
DecodeString(s) ==
    IF (\E i \in 1..Len(s) : s[i] \notin 0..63) \/ Len(s) % 4 = 1
    THEN [ok |-> FALSE, bytes |-> <<>>]
    ELSE [ok |-> TRUE, bytes |-> DecodeQuanta(s)]

RECURSIVE TrimRightPad(_)
\* strings.TrimRight(s, "=")
TrimRightPad(s) ==
    IF Len(s) > 0 /\ s[Len(s)] = PadChar
    THEN TrimRightPad(SubSeq(s, 1, Len(s) - 1))
    ELSE s

\* a faulty variant: only one trailing "=" is removed
base64urlTrailingPadding_one(s) ==
    DecodeString(IF Len(s) > 0 /\ s[Len(s)] = PadChar
                 THEN SubSeq(s, 1, Len(s) - 1) ELSE s)

base64urlTrailingPadding(s) == DecodeString(TrimRightPad(s))

RECURSIVE Bytes(_)
\* (*big.Int).Bytes: the minimal big-endian bytes of |i|; zero is empty
Bytes(i) == IF i = 0 THEN <<>> ELSE Append(Bytes(i \div 256), i % 256)

RECURSIVE SetBytes(_)
\* (*big.Int).SetBytes: the big-endian value of the bytes
SetBytes(b) ==
    IF Len(b) = 0 THEN 0
    ELSE SetBytes(SubSeq(b, 1, Len(b) - 1)) * 256 + b[Len(b)]

bigIntToBase64RawURL(i) == EncodeToString(Bytes(i))

(***************************************************************************)
(* Data: a key (KeyWithMeta.Key, tagged by its Go type) and a wire record  *)
(* (JWKMarshal).  Unused fields hold the zero value.                       *)
(***************************************************************************)
NoPrecomputed == [Dp |-> Nil, Dq |-> Nil, Qinv |-> Nil, CRTValues |-> <<>>]

\* a nil interface value: KeyWithMeta{}.Key
NilKey ==
    [type |-> "nil", Curve |-> "", X |-> 0, Y |-> 0, D |-> 0, N |-> 0, E |-> 0,
     Primes |-> <<>>, Precomputed |-> NoPrecomputed, bytes |-> <<>>]

\* KeyWithMeta{}
NoMeta == [Key |-> NilKey, KeyID |-> ""]

\* JWKMarshal{}
EmptyJWK ==
    [KTY |-> "", CRV |-> "", ALG |-> "", X |-> <<>>, Y |-> <<>>, D |-> <<>>,
     N |-> <<>>, E |-> <<>>, P |-> <<>>, Q |-> <<>>, DP |-> <<>>, DQ |-> <<>>,
     QI |-> <<>>, OTH |-> <<>>, K |-> <<>>, KID |-> ""]

KeyTypeEC == "EC"
KeyTypeOKP == "OKP"
KeyTypeRSA == "RSA"
KeyTypeOct == "oct"
ALGEdDSA == "EdDSA"
CurveEd25519 == "Ed25519"
CurveP256 == "P-256"
CurveP384 == "P-384"
CurveP521 == "P-521"

ErrNone == "nil"
ErrKeyUnmarshalParameter == "ErrKeyUnmarshalParameter"
ErrUnsupportedKeyType == "ErrUnsupportedKeyType"
\* the error of base64.RawURLEncoding.DecodeString, wrapped with %w
ErrCorruptInput == "base64.CorruptInputError"
\* the error of (*rsa.PrivateKey).Validate, wrapped with %w
ErrValidate == "rsa.Validate"
\* a run-time panic (nil dereference, index or slice out of range)
Panic == "panic"

(***************************************************************************)
(* KeyMarshal, one operator for each case of its type switch.  Each gives  *)
(* the record before "kid" is set, and the error.                          *)
(***************************************************************************)
Marshalled(j) == [jwk |-> j, err |-> ErrNone]
MarshalFailed(e) == [jwk |-> EmptyJWK, err |-> e]

\* a faulty variant: the private scalar is emitted whatever the options say
MarshalECPrivate_always(key, options) ==
    Marshalled([EmptyJWK EXCEPT
        !.CRV = key.Curve, !.X = bigIntToBase64RawURL(key.X),
        !.Y = bigIntToBase64RawURL(key.Y), !.KTY = KeyTypeEC,
        !.D = bigIntToBase64RawURL(key.D)])

MarshalECPrivate(key, options) ==
    IF key.X = Nil \/ key.Y = Nil \/ (options.AsymmetricPrivate /\ key.D = Nil)
    THEN MarshalFailed(Panic)
    ELSE Marshalled([EmptyJWK EXCEPT
        !.CRV = key.Curve, !.X = bigIntToBase64RawURL(key.X),
        !.Y = bigIntToBase64RawURL(key.Y), !.KTY = KeyTypeEC,
        !.D = IF options.AsymmetricPrivate
              THEN bigIntToBase64RawURL(key.D) ELSE <<>>])

MarshalECPublic(key, options) ==
    IF key.X = Nil \/ key.Y = Nil
    THEN MarshalFailed(Panic)
    ELSE Marshalled([EmptyJWK EXCEPT
        !.CRV = key.Curve, !.X = bigIntToBase64RawURL(key.X),
        !.Y = bigIntToBase64RawURL(key.Y), !.KTY = KeyTypeEC])

\* ed25519.PrivateKey.Public: copy(publicKey, priv[32:]) into 32 zero bytes
Ed25519Public(priv) ==
    [i \in 1..PublicKeySize |->
        IF SeedSize + i <= Len(priv) THEN priv[SeedSize + i] ELSE 0]

MarshalEd25519Private(key, options) ==
    IF Len(key.bytes) < SeedSize
    THEN MarshalFailed(Panic)
    ELSE Marshalled([EmptyJWK EXCEPT
        !.ALG = ALGEdDSA, !.CRV = CurveEd25519,
        !.X = EncodeToString(Ed25519Public(key.bytes)), !.KTY = KeyTypeOKP,
        !.D = IF options.AsymmetricPrivate
              THEN EncodeToString(SubSeq(key.bytes, 1, SeedSize)) ELSE <<>>])

MarshalEd25519Public(key, options) ==
    Marshalled([EmptyJWK EXCEPT
        !.ALG = ALGEdDSA, !.CRV = CurveEd25519,
        !.X = EncodeToString(key.bytes), !.KTY = KeyTypeOKP])

\* one OtherPrimes entry from one rsa.CRTValue
MarshalOtherPrimes(v) ==
    [D |-> bigIntToBase64RawURL(v.Exp), T |-> bigIntToBase64RawURL(v.Coeff),
     R |-> bigIntToBase64RawURL(v.R)]

MarshalRSAPrivate(key, options) ==
    LET pre == key.Precomputed
        public == [EmptyJWK EXCEPT
            !.E = bigIntToBase64RawURL(key.E), !.N = bigIntToBase64RawURL(key.N),
            !.KTY = KeyTypeRSA]
    IN  IF key.N = Nil THEN MarshalFailed(Panic)
        ELSE IF ~options.AsymmetricPrivate THEN Marshalled(public)
        ELSE IF \/ key.D = Nil
                \/ Len(key.Primes) < 2
                \/ pre.Dp = Nil \/ pre.Dq = Nil \/ pre.Qinv = Nil
        THEN MarshalFailed(Panic)
        ELSE Marshalled([public EXCEPT
            !.D = bigIntToBase64RawURL(key.D),
            !.P = bigIntToBase64RawURL(key.Primes[1]),
            !.Q = bigIntToBase64RawURL(key.Primes[2]),
            !.DP = bigIntToBase64RawURL(pre.Dp),
            !.DQ = bigIntToBase64RawURL(pre.Dq),
            !.QI = bigIntToBase64RawURL(pre.Qinv),
            !.OTH = [i \in 1..Len(pre.CRTValues) |->
                        MarshalOtherPrimes(pre.CRTValues[i])]])

MarshalRSAPublic(key, options) ==
    IF key.N = Nil THEN MarshalFailed(Panic)
    ELSE Marshalled([EmptyJWK EXCEPT
        !.E = bigIntToBase64RawURL(key.E), !.N = bigIntToBase64RawURL(key.N),
        !.KTY = KeyTypeRSA])

\* a faulty variant: raw bytes are encoded whatever the options say
MarshalBytes_always(key, options) ==
    Marshalled([EmptyJWK EXCEPT
        !.KTY = KeyTypeOct, !.K = EncodeToString(key.bytes)])

MarshalBytes(key, options) ==
    IF options.Symmetric
    THEN Marshalled([EmptyJWK EXCEPT
        !.KTY = KeyTypeOct, !.K = EncodeToString(key.bytes)])
    ELSE MarshalFailed(ErrUnsupportedKeyType)

KeyMarshal(m, options) ==
    LET key == m.Key
        r == CASE key.type = "*ecdsa.PrivateKey" -> MarshalECPrivate(key, options)
               [] key.type = "*ecdsa.PublicKey" -> MarshalECPublic(key, options)
               [] key.type = "ed25519.PrivateKey" -> MarshalEd25519Private(key, options)
               [] key.type = "ed25519.PublicKey" -> MarshalEd25519Public(key, options)
               [] key.type = "*rsa.PrivateKey" -> MarshalRSAPrivate(key, options)
               [] key.type = "*rsa.PublicKey" -> MarshalRSAPublic(key, options)
               [] key.type = "[]byte" -> MarshalBytes(key, options)
               [] OTHER -> MarshalFailed(ErrUnsupportedKeyType)
    IN  IF r.err = ErrNone
        THEN [jwk |-> [r.jwk EXCEPT !.KID = m.KeyID], err |-> ErrNone]
        ELSE r

(***************************************************************************)
(* The earlier revision of KeyMarshal, which JWKSet.JSON was written       *)
(* against: public keys are matched as values (ecdsa.PublicKey,            *)
(* rsa.PublicKey), "alg" is not set, an Ed25519 "d" is the whole private   *)
(* key, and the oth loop indexes CRTValues by the index of the prime.      *)
(***************************************************************************)
EarlierMarshalEd25519Private(key, options) ==
    IF Len(key.bytes) < SeedSize
    THEN MarshalFailed(Panic)
    ELSE Marshalled([EmptyJWK EXCEPT
        !.CRV = CurveEd25519,
        !.X = EncodeToString(Ed25519Public(key.bytes)), !.KTY = KeyTypeOKP,
        !.D = IF options.AsymmetricPrivate
              THEN EncodeToString(key.bytes) ELSE <<>>])

EarlierMarshalEd25519Public(key, options) ==
    Marshalled([EmptyJWK EXCEPT
        !.CRV = CurveEd25519, !.X = EncodeToString(key.bytes),
        !.KTY = KeyTypeOKP])

EarlierMarshalRSAPrivate(key, options) ==
    LET pre == key.Precomputed
        n == Len(key.Primes)
        public == [EmptyJWK EXCEPT
            !.E = bigIntToBase64RawURL(key.E), !.N = bigIntToBase64RawURL(key.N),
            !.KTY = KeyTypeRSA]
    IN  IF key.N = Nil THEN MarshalFailed(Panic)
        ELSE IF ~options.AsymmetricPrivate THEN Marshalled(public)
        ELSE IF \/ key.D = Nil
                \/ n < 2
                \/ pre.Dp = Nil \/ pre.Dq = Nil \/ pre.Qinv = Nil
                \/ \E i \in 2..(n - 1) : i + 1 > Len(pre.CRTValues)
        THEN MarshalFailed(Panic)
        ELSE Marshalled([public EXCEPT
            !.D = bigIntToBase64RawURL(key.D),
            !.P = bigIntToBase64RawURL(key.Primes[1]),
            !.Q = bigIntToBase64RawURL(key.Primes[2]),
            !.DP = bigIntToBase64RawURL(pre.Dp),
            !.DQ = bigIntToBase64RawURL(pre.Dq),
            !.QI = bigIntToBase64RawURL(pre.Qinv),
            !.OTH = [k \in 1..(n - 2) |->
                        MarshalOtherPrimes(pre.CRTValues[k + 2])]])

EarlierKeyMarshal(m, options) ==
    LET key == m.Key
        r == CASE key.type = "*ecdsa.PrivateKey" -> MarshalECPrivate(key, options)
               [] key.type = "ecdsa.PublicKey" -> MarshalECPublic(key, options)
               [] key.type = "ed25519.PrivateKey" ->
                      EarlierMarshalEd25519Private(key, options)
               [] key.type = "ed25519.PublicKey" ->
                      EarlierMarshalEd25519Public(key, options)
               [] key.type = "*rsa.PrivateKey" ->
                      EarlierMarshalRSAPrivate(key, options)
               [] key.type = "rsa.PublicKey" -> MarshalRSAPublic(key, options)
               [] key.type = "[]byte" -> MarshalBytes(key, options)
               [] OTHER -> MarshalFailed(ErrUnsupportedKeyType)
    IN  IF r.err = ErrNone
        THEN [jwk |-> [r.jwk EXCEPT !.KID = m.KeyID], err |-> ErrNone]
        ELSE r

\* the KeyMarshal that a revision of the package binds the name to
KeyMarshalOf(rev, m, options) ==
    IF rev = "earlier" THEN EarlierKeyMarshal(m, options)
    ELSE KeyMarshal(m, options)

(***************************************************************************)
(* JWKSet.JSON: the key set document of a snapshot of the store.           *)
(***************************************************************************)
\* a faulty variant: private and symmetric material is let through
JSONOptions_all == [AsymmetricPrivate |-> TRUE, Symmetric |-> TRUE]

\* options := KeyMarshalOptions{AsymmetricPrivate: false}
JSONOptions == [AsymmetricPrivate |-> FALSE, Symmetric |-> FALSE]

\* the error of Store.SnapshotKeys, and of a KeyMarshal failure that is not
\* ErrUnsupportedKeyType, each wrapped with %w
ErrSnapshot == "failed to read snapshot of all keys from storage"
ErrMarshal == "failed to marshal key"

RECURSIVE JSONLoop_abort(_, _, _)
\* a faulty variant: an unsupported key ends the loop with an error
JSONLoop_abort(rev, keys, out) ==
    IF Len(keys) = 0 THEN [Keys |-> out, err |-> ErrNone]
    ELSE LET r == KeyMarshalOf(rev, Head(keys), JSONOptions)
         IN  IF r.err = Panic THEN [Keys |-> <<>>, err |-> Panic]
             ELSE IF r.err # ErrNone THEN [Keys |-> <<>>, err |-> ErrMarshal]
             ELSE JSONLoop_abort(rev, Tail(keys), Append(out, r.jwk))

RECURSIVE JSONLoop(_, _, _)
\* for _, meta := range keys: the records appended so far are out
JSONLoop(rev, keys, out) ==
    IF Len(keys) = 0 THEN [Keys |-> out, err |-> ErrNone]
    ELSE LET r == KeyMarshalOf(rev, Head(keys), JSONOptions)
         IN  IF r.err = Panic THEN [Keys |-> <<>>, err |-> Panic]
             ELSE IF r.err = ErrUnsupportedKeyType
             THEN JSONLoop(rev, Tail(keys), out)
             ELSE IF r.err # ErrNone THEN [Keys |-> <<>>, err |-> ErrMarshal]
             ELSE JSONLoop(rev, Tail(keys), Append(out, r.jwk))

\* JSON(ctx): the JWKSMarshal that is serialised, or the error
JSON(rev, keys, failed) ==
    IF failed THEN [Keys |-> <<>>, err |-> ErrSnapshot]
    ELSE JSONLoop(rev, keys, <<>>)

(***************************************************************************)
(* KeyUnmarshal, one operator for each case of its switch on "kty".  Each  *)
(* gives the key (before KeyID is set) and the error.                      *)
(***************************************************************************)
Unmarshalled(k) == [key |-> k, err |-> ErrNone]
UnmarshalFailed(e) == [key |-> NilKey, err |-> e]

ECPublicKey(crv, x, y) ==
    [NilKey EXCEPT !.type = "*ecdsa.PublicKey", !.Curve = crv, !.X = x, !.Y = y]
ECPrivateKey(crv, x, y, d) ==
    [NilKey EXCEPT !.type = "*ecdsa.PrivateKey", !.Curve = crv, !.X = x, !.Y = y,
                   !.D = d]
Ed25519PublicKey(b) == [NilKey EXCEPT !.type = "ed25519.PublicKey", !.bytes = b]
Ed25519PrivateKey(b) == [NilKey EXCEPT !.type = "ed25519.PrivateKey", !.bytes = b]
RSAPublicKey(n, e) == [NilKey EXCEPT !.type = "*rsa.PublicKey", !.N = n, !.E = e]
RSAPrivateKey(n, e, d, primes, pre) ==
    [NilKey EXCEPT !.type = "*rsa.PrivateKey", !.N = n, !.E = e, !.D = d,
                   !.Primes = primes, !.Precomputed = pre]
BytesKey(b) == [NilKey EXCEPT !.type = "[]byte", !.bytes = b]

\* a faulty variant: a private key is built whenever "d" is present
UnmarshalEC_ignoreOptions(j, options) ==
    IF j.CRV = "" \/ j.X = <<>> \/ j.Y = <<>>
    THEN UnmarshalFailed(ErrKeyUnmarshalParameter)
    ELSE LET x == base64urlTrailingPadding(j.X)
             y == base64urlTrailingPadding(j.Y)
             d == base64urlTrailingPadding(j.D)
         IN  IF ~x.ok \/ ~y.ok THEN UnmarshalFailed(ErrCorruptInput)
             ELSE IF j.CRV \notin {CurveP256, CurveP384, CurveP521}
             THEN UnmarshalFailed(ErrKeyUnmarshalParameter)
             ELSE IF j.D # <<>>
             THEN IF ~d.ok THEN UnmarshalFailed(ErrCorruptInput)
                  ELSE Unmarshalled(ECPrivateKey(j.CRV, SetBytes(x.bytes),
                                        SetBytes(y.bytes), SetBytes(d.bytes)))
             ELSE Unmarshalled(ECPublicKey(j.CRV, SetBytes(x.bytes),
                                           SetBytes(y.bytes)))

UnmarshalEC(j, options) ==
    IF j.CRV = "" \/ j.X = <<>> \/ j.Y = <<>>
    THEN UnmarshalFailed(ErrKeyUnmarshalParameter)
    ELSE LET x == base64urlTrailingPadding(j.X)
             y == base64urlTrailingPadding(j.Y)
             d == base64urlTrailingPadding(j.D)
         IN  IF ~x.ok THEN UnmarshalFailed(ErrCorruptInput)
             ELSE IF ~y.ok THEN UnmarshalFailed(ErrCorruptInput)
             ELSE IF j.CRV \notin {CurveP256, CurveP384, CurveP521}
             THEN UnmarshalFailed(ErrKeyUnmarshalParameter)
             ELSE IF options.AsymmetricPrivate /\ j.D # <<>>
             THEN IF ~d.ok THEN UnmarshalFailed(ErrCorruptInput)
                  ELSE Unmarshalled(ECPrivateKey(j.CRV, SetBytes(x.bytes),
                                        SetBytes(y.bytes), SetBytes(d.bytes)))
             ELSE Unmarshalled(ECPublicKey(j.CRV, SetBytes(x.bytes),
                                           SetBytes(y.bytes)))

\* a faulty variant: the length of the decoded "x" is not checked
UnmarshalOKP_anyLength(j, options) ==
    IF j.CRV # CurveEd25519 THEN UnmarshalFailed(ErrKeyUnmarshalParameter)
    ELSE IF j.X = <<>> THEN UnmarshalFailed(ErrKeyUnmarshalParameter)
    ELSE LET public == base64urlTrailingPadding(j.X)
         IN  IF ~public.ok THEN UnmarshalFailed(ErrCorruptInput)
             ELSE Unmarshalled(Ed25519PublicKey(public.bytes))

UnmarshalOKP(j, options) ==
    IF j.CRV # CurveEd25519 THEN UnmarshalFailed(ErrKeyUnmarshalParameter)
    ELSE IF j.X = <<>> THEN UnmarshalFailed(ErrKeyUnmarshalParameter)
    ELSE LET public == base64urlTrailingPadding(j.X)
             private == base64urlTrailingPadding(j.D)
         IN  IF ~public.ok THEN UnmarshalFailed(ErrCorruptInput)
             ELSE IF Len(public.bytes) # PublicKeySize
             THEN UnmarshalFailed(ErrKeyUnmarshalParameter)
             ELSE IF options.AsymmetricPrivate /\ j.D # <<>>
             THEN IF ~private.ok THEN UnmarshalFailed(ErrCorruptInput)
                  ELSE IF Len(private.bytes \o public.bytes) # PrivateKeySize
                  THEN UnmarshalFailed(ErrKeyUnmarshalParameter)
                  ELSE Unmarshalled(Ed25519PrivateKey(private.bytes \o public.bytes))
             ELSE Unmarshalled(Ed25519PublicKey(public.bytes))

RECURSIVE Product(_)
Product(ps) == IF Len(ps) = 0 THEN 1 ELSE ps[1] * Product(Tail(ps))

\* (*rsa.PrivateKey).Validate of crypto/rsa: the public exponent is at least
\* 2, every prime exceeds 1, the primes multiply to N and d*e = 1 mod p-1 for
\* each prime.  Whether the precomputed dp, dq and qi are checked as well
\* depends on the toolchain that builds the package: crtChecked.
Validate(key) ==
    /\ key.E >= 2
    /\ \A i \in 1..Len(key.Primes) : key.Primes[i] > 1
    /\ Product(key.Primes) = key.N
    /\ \A i \in 1..Len(key.Primes) : (key.E * key.D) % (key.Primes[i] - 1) = 1
    /\ crtChecked =>
          /\ key.Precomputed.Dp = key.D % (key.Primes[1] - 1)
          /\ key.Precomputed.Dq = key.D % (key.Primes[2] - 1)
          /\ (key.Precomputed.Qinv * key.Primes[2]) % key.Primes[1] = 1

\* the error of decoding one "oth" entry, in the order the loop meets them
OtherPrimesErr(o) ==
    IF o.R = <<>> \/ o.D = <<>> \/ o.T = <<>> THEN ErrKeyUnmarshalParameter
    ELSE IF ~base64urlTrailingPadding(o.D).ok THEN ErrCorruptInput
    ELSE IF ~base64urlTrailingPadding(o.T).ok THEN ErrCorruptInput
    ELSE IF ~base64urlTrailingPadding(o.R).ok THEN ErrCorruptInput
    ELSE ErrNone

\* the rsa.CRTValue of one "oth" entry
UnmarshalOtherPrimes(o) ==
    [Exp |-> SetBytes(base64urlTrailingPadding(o.D).bytes),
     Coeff |-> SetBytes(base64urlTrailingPadding(o.T).bytes),
     R |-> SetBytes(base64urlTrailingPadding(o.R).bytes)]

\* the rsa.PrivateKey built from the decoded fields, before it is validated
ReconstructRSAPrivate(j, publicKey) ==
    LET oth == [i \in 1..Len(j.OTH) |-> UnmarshalOtherPrimes(j.OTH[i])]
        primes == << SetBytes(base64urlTrailingPadding(j.P).bytes),
                     SetBytes(base64urlTrailingPadding(j.Q).bytes) >>
                     \o [i \in 1..Len(j.OTH) |-> oth[i].R]
    IN  RSAPrivateKey(publicKey.N, publicKey.E,
            SetBytes(base64urlTrailingPadding(j.D).bytes), primes,
            [Dp |-> SetBytes(base64urlTrailingPadding(j.DP).bytes),
             Dq |-> SetBytes(base64urlTrailingPadding(j.DQ).bytes),
             Qinv |-> SetBytes(base64urlTrailingPadding(j.QI).bytes),
             CRTValues |-> oth])

\* the private branch: all of d, p, q, dp, dq, qi are present
UnmarshalRSAPrivate(j, publicKey) ==
    LET bad == {i \in 1..Len(j.OTH) : OtherPrimesErr(j.OTH[i]) # ErrNone}
        first == CHOOSE i \in bad : \A k \in bad : i <= k
        privateKey == ReconstructRSAPrivate(j, publicKey)
    IN  IF \E f \in {"D", "P", "Q", "DP", "DQ", "QI"} :
               ~base64urlTrailingPadding(j[f]).ok
        THEN UnmarshalFailed(ErrCorruptInput)
        ELSE IF bad # {} THEN UnmarshalFailed(OtherPrimesErr(j.OTH[first]))
        ELSE IF ~Validate(privateKey) THEN UnmarshalFailed(ErrValidate)
        ELSE Unmarshalled(privateKey)

UnmarshalRSA(j, options) ==
    IF j.N = <<>> \/ j.E = <<>> THEN UnmarshalFailed(ErrKeyUnmarshalParameter)
    ELSE LET n == base64urlTrailingPadding(j.N)
             e == base64urlTrailingPadding(j.E)
             publicKey == RSAPublicKey(SetBytes(n.bytes), SetBytes(e.bytes))
         IN  IF ~n.ok THEN UnmarshalFailed(ErrCorruptInput)
             ELSE IF ~e.ok THEN UnmarshalFailed(ErrCorruptInput)
             ELSE IF /\ options.AsymmetricPrivate
                     /\ j.D # <<>> /\ j.P # <<>> /\ j.Q # <<>>
                     /\ j.DP # <<>> /\ j.DQ # <<>> /\ j.QI # <<>>
             THEN UnmarshalRSAPrivate(j, publicKey)
             ELSE IF ~options.AsymmetricPrivate THEN Unmarshalled(publicKey)
             ELSE Unmarshalled(NilKey)

\* a faulty variant: an empty "k" is decoded to an empty secret
UnmarshalOct_emptyK(j, options) ==
    IF options.Symmetric
    THEN LET key == base64urlTrailingPadding(j.K)
         IN  IF ~key.ok THEN UnmarshalFailed(ErrCorruptInput)
             ELSE Unmarshalled(BytesKey(key.bytes))
    ELSE UnmarshalFailed(ErrUnsupportedKeyType)

UnmarshalOct(j, options) ==
    IF options.Symmetric
    THEN IF j.K = <<>> THEN UnmarshalFailed(ErrKeyUnmarshalParameter)
         ELSE LET key == base64urlTrailingPadding(j.K)
              IN  IF ~key.ok THEN UnmarshalFailed(ErrCorruptInput)
                  ELSE Unmarshalled(BytesKey(key.bytes))
    ELSE UnmarshalFailed(ErrUnsupportedKeyType)

KeyUnmarshal(j, options) ==
    LET r == CASE j.KTY = KeyTypeEC -> UnmarshalEC(j, options)
               [] j.KTY = KeyTypeOKP -> UnmarshalOKP(j, options)
               [] j.KTY = KeyTypeRSA -> UnmarshalRSA(j, options)
               [] j.KTY = KeyTypeOct -> UnmarshalOct(j, options)
               [] OTHER -> UnmarshalFailed(ErrUnsupportedKeyType)
    IN  IF r.err = ErrNone
        THEN [meta |-> [Key |-> r.key, KeyID |-> j.KID], err |-> ErrNone]
        ELSE [meta |-> NoMeta, err |-> r.err]

(***************************************************************************)
(* The inputs: keys handed to KeyMarshal and records handed to             *)
(* KeyUnmarshal.  The integers of a key are positive.                      *)
(***************************************************************************)
Options == [AsymmetricPrivate : BOOLEAN, Symmetric : BOOLEAN]
NoOptions == [AsymmetricPrivate |-> FALSE, Symmetric |-> FALSE]
KeyIDs == {"", "k1"}
Curves == {CurveP256, CurveP384, CurveP521}

\* integers of one, two and three bytes
IntSamples == {1, 258, 65537}

Fill(n, b) == [i \in 1..n |-> b]
Ramp(n) == [i \in 1..n |-> i]

Ed25519PublicSamples == {Fill(PublicKeySize, 0), Fill(PublicKeySize, 255), Ramp(PublicKeySize)}
\* well-formed private keys (seed, then public half), and two byte slices of
\* another length, which the type ed25519.PrivateKey allows
Ed25519PrivateSamples ==
    {Ramp(PrivateKeySize), Fill(SeedSize, 255) \o Fill(PublicKeySize, 7),
     Ramp(SeedSize - 1), Ramp(PrivateKeySize - 1)}

\* 33 = 3 * 11, e = 3, d = 7
RSAKey33 ==
    RSAPrivateKey(33, 3, 7, <<3, 11>>,
                  [Dp |-> 1, Dq |-> 7, Qinv |-> 2, CRTValues |-> <<>>])
\* 323 = 17 * 19, e = 5, d = 29
RSAKey323 ==
    RSAPrivateKey(323, 5, 29, <<17, 19>>,
                  [Dp |-> 13, Dq |-> 11, Qinv |-> 9, CRTValues |-> <<>>])
\* 105 = 3 * 5 * 7, e = 5, d = 5; the third prime's CRT value has
\* Exp = d mod 6, R = 3 * 5 and Coeff = R^-1 mod 7, as Precompute sets them
RSAKey105 ==
    RSAPrivateKey(105, 5, 5, <<3, 5, 7>>,
                  [Dp |-> 1, Dq |-> 1, Qinv |-> 2,
                   CRTValues |-> << [Exp |-> 5, Coeff |-> 1, R |-> 15] >>])
\* a key whose Precompute was never called, and one with a single prime
RSAKeyNotPrecomputed == [RSAKey33 EXCEPT !.Precomputed = NoPrecomputed]
RSAKeyOnePrime == [RSAKey33 EXCEPT !.Primes = <<33>>]
RSAPrivateSamples ==
    {RSAKey33, RSAKey323, RSAKey105, RSAKeyNotPrecomputed, RSAKeyOnePrime}

BytesSamples == {<<>>, <<1>>, <<1, 2>>, <<1, 2, 3>>, <<255, 254, 253, 252>>}

Keys ==
    {ECPublicKey(c, x, y) : c \in Curves, x \in IntSamples, y \in IntSamples}
    \cup {ECPrivateKey(c, x, y, d) :
             c \in Curves, x \in {1, 258}, y \in {258, 65537}, d \in IntSamples}
    \cup {Ed25519PublicKey(b) : b \in Ed25519PublicSamples}
    \cup {Ed25519PrivateKey(b) : b \in Ed25519PrivateSamples}
    \cup RSAPrivateSamples
    \cup {RSAPublicKey(k.N, k.E) : k \in RSAPrivateSamples}
    \cup {BytesKey(b) : b \in BytesSamples}
    \cup {[NilKey EXCEPT !.type = "string"]}

KeyMetas == [Key : Keys, KeyID : KeyIDs]

RECURSIVE Pad(_, _)
\* s followed by n "=" characters
Pad(s, n) == IF n = 0 THEN s ELSE Append(Pad(s, n - 1), PadChar)

\* what a producer may put in a field: nothing, an encoding, an encoding
\* with trailing "=", a character outside the alphabet, a lone "="
Malformed == {<<BadChar>>, <<PadChar>>}
WireInts ==
    {<<>>, bigIntToBase64RawURL(1), bigIntToBase64RawURL(258)}
    \cup {Pad(bigIntToBase64RawURL(1), n) : n \in 1..MaxPad}
    \cup Malformed

ECRecords ==
    {[EmptyJWK EXCEPT !.KTY = KeyTypeEC, !.CRV = c, !.X = x, !.Y = y, !.D = d] :
        c \in Curves \cup {"", "secp256k1"},
        x \in WireInts, y \in WireInts,
        d \in {<<>>, bigIntToBase64RawURL(258), <<BadChar>>}}

OKPRecords ==
    {[EmptyJWK EXCEPT !.KTY = KeyTypeOKP, !.ALG = ALGEdDSA, !.CRV = c, !.X = x,
                      !.D = d] :
        c \in {CurveEd25519, CurveP256, ""},
        x \in {<<>>} \cup Malformed
              \cup {EncodeToString(Ramp(n)) :
                       n \in {PublicKeySize - 1, PublicKeySize, PublicKeySize + 1}}
              \cup {Pad(EncodeToString(Ramp(PublicKeySize)), n) : n \in 1..MaxPad},
        d \in {<<>>, <<BadChar>>, EncodeToString(Fill(SeedSize, 9)),
               EncodeToString(Fill(SeedSize - 1, 9)),
               Pad(EncodeToString(Fill(SeedSize, 9)), 1)}}

RECURSIVE SeqsUpTo(_, _)
\* the sequences over S of length at most n
SeqsUpTo(S, n) ==
    IF n = 0 THEN {<<>>}
    ELSE LET shorter == SeqsUpTo(S, n - 1)
         IN  shorter \cup {Append(q, x) : q \in shorter, x \in S}

OtherPrimesSamples ==
    [D : {bigIntToBase64RawURL(5), <<>>},
     T : {bigIntToBase64RawURL(1), <<BadChar>>},
     R : {bigIntToBase64RawURL(7), bigIntToBase64RawURL(15), <<>>,
          Pad(bigIntToBase64RawURL(15), 1)}]

\* the records KeyMarshal gives for the sample keys, with private material
RSABaseRecords ==
    {KeyMarshal([Key |-> k, KeyID |-> ""],
                [AsymmetricPrivate |-> TRUE, Symmetric |-> FALSE]).jwk :
        k \in {RSAKey33, RSAKey323, RSAKey105}}

RSAFields == {"N", "E", "D", "P", "Q", "DP", "DQ", "QI"}

\* a base record with some fields left out, or one field replaced, or
\* another "oth"
RSARecords ==
    {[f \in DOMAIN r |-> IF f \in S THEN <<>> ELSE r[f]] :
        r \in RSABaseRecords, S \in SUBSET {"D", "P", "Q", "DP", "DQ", "QI"}}
    \cup {[r EXCEPT ![f] = v] :
             r \in RSABaseRecords, f \in RSAFields,
             v \in WireInts \cup {bigIntToBase64RawURL(3)}}
    \cup {[r EXCEPT !.OTH = o] :
             r \in RSABaseRecords, o \in SeqsUpTo(OtherPrimesSamples, MaxOth)}

OctRecords ==
    {[EmptyJWK EXCEPT !.KTY = KeyTypeOct, !.K = k] :
        k \in {<<>>, EncodeToString(<<1>>), EncodeToString(<<1, 2, 3>>)}
              \cup {Pad(EncodeToString(<<1>>), n) : n \in 1..MaxPad}
              \cup Malformed}

OtherRecords == {[EmptyJWK EXCEPT !.KTY = t] : t \in {"", "foo"}}

\* the keys a store may hold: every supported type, both ways of holding a
\* public key (pointer and value), malformed private keys, a symmetric key
\* and a value that is no key
SnapshotKeySamples ==
    {ECPrivateKey(CurveP256, 1, 258, 65537),
     ECPublicKey(CurveP384, 258, 1),
     [ECPublicKey(CurveP521, 1, 1) EXCEPT !.type = "ecdsa.PublicKey"],
     Ed25519PrivateKey(Ramp(PrivateKeySize)),
     Ed25519PrivateKey(Ramp(SeedSize - 1)),
     Ed25519PublicKey(Fill(PublicKeySize, 255)),
     RSAKey105,
     RSAKeyNotPrecomputed,
     RSAPublicKey(323, 5),
     [RSAPublicKey(33, 3) EXCEPT !.type = "rsa.PublicKey"],
     BytesKey(<<1, 2, 3>>),
     [NilKey EXCEPT !.type = "string"]}

Snapshots ==
    SeqsUpTo({[Key |-> k, KeyID |-> "k1"] : k \in SnapshotKeySamples}, MaxSnapshot)

WireRecords ==
    {[r EXCEPT !.KID = id] :
        r \in ECRecords \cup OKPRecords \cup RSARecords \cup OctRecords
              \cup OtherRecords,
        id \in KeyIDs}

(***************************************************************************)
(* The state machine: a key is marshalled and the record it gave is        *)
(* unmarshalled again, or a record off the wire is unmarshalled.           *)
(***************************************************************************)
Init ==
    /\ meta = NoMeta
    /\ mopts = NoOptions
    /\ jwk = EmptyJWK
    /\ merr = ErrNone
    /\ uopts = NoOptions
    /\ umeta = NoMeta
    /\ uerr = ErrNone
    /\ origin = "none"
    /\ pc = "start"
    /\ crtChecked \in BOOLEAN
    /\ revision = "later"
    /\ snapshot = <<>>
    /\ snapshotFailed = FALSE
    /\ jwks = <<>>
    /\ jerr = ErrNone

\* KeyMarshal(m, options)
DoKeyMarshal ==
    /\ pc = "start"
    /\ \E m \in KeyMetas, options \in Options :
          LET r == KeyMarshal(m, options)
          IN  /\ meta' = m
              /\ mopts' = options
              /\ jwk' = r.jwk
              /\ merr' = r.err
    /\ origin' = "KeyMarshal"
    /\ pc' = "marshalled"
    /\ UNCHANGED <<uopts, umeta, uerr, crtChecked, jsonVars>>

\* KeyUnmarshal of the record KeyMarshal returned
DoKeyUnmarshalMarshalled ==
    /\ pc = "marshalled"
    /\ merr = ErrNone
    /\ \E options \in Options :
          LET r == KeyUnmarshal(jwk, options)
          IN  /\ uopts' = options
              /\ umeta' = r.meta
              /\ uerr' = r.err
    /\ pc' = "unmarshalled"
    /\ UNCHANGED <<meta, mopts, jwk, merr, origin, crtChecked, jsonVars>>

\* KeyUnmarshal of a record decoded from JSON
DoKeyUnmarshalWire ==
    /\ pc = "start"
    /\ \E j \in WireRecords, options \in Options :
          LET r == KeyUnmarshal(j, options)
          IN  /\ jwk' = j
              /\ uopts' = options
              /\ umeta' = r.meta
              /\ uerr' = r.err
    /\ origin' = "wire"
    /\ pc' = "unmarshalled"
    /\ UNCHANGED <<meta, mopts, merr, crtChecked, jsonVars>>

\* JWKSet.JSON over a snapshot of the store; the revision is the one whose
\* KeyMarshal the call is compiled against
DoJSON ==
    /\ pc = "start"
    /\ \E rev \in {"earlier", "later"}, keys \in Snapshots, failed \in BOOLEAN :
          LET r == JSON(rev, keys, failed)
          IN  /\ revision' = rev
              /\ snapshot' = keys
              /\ snapshotFailed' = failed
              /\ jwks' = r.Keys
              /\ jerr' = r.err
    /\ origin' = "JSON"
    /\ pc' = "json"
    /\ UNCHANGED <<meta, mopts, jwk, merr, uopts, umeta, uerr, crtChecked>>

Next ==
    \/ DoKeyMarshal
    \/ DoKeyUnmarshalMarshalled
    \/ DoKeyUnmarshalWire
    \/ DoJSON

Spec == Init /\ [][Next]_vars

(***************************************************************************)
(* The properties.                                                         *)
(***************************************************************************)
Decoded(s) == base64urlTrailingPadding(s).bytes
Decodes(s) == base64urlTrailingPadding(s).ok
AsymmetricKTY == {KeyTypeEC, KeyTypeOKP, KeyTypeRSA}
AsymmetricTypes ==
    {"*ecdsa.PrivateKey", "*ecdsa.PublicKey", "ed25519.PrivateKey",
     "ed25519.PublicKey", "*rsa.PrivateKey", "*rsa.PublicKey"}
PrivateFields == {"D", "P", "Q", "DP", "DQ", "QI"}
MarshalDone == origin = "KeyMarshal" /\ merr = ErrNone
JSONDone == pc = "json"
RoundTripDone == origin = "KeyMarshal" /\ pc = "unmarshalled"
UnmarshalDone == pc = "unmarshalled"

\* the public key that the public fields of a record describe
PublicOf(j) ==
    CASE j.KTY = KeyTypeEC ->
            ECPublicKey(j.CRV, SetBytes(Decoded(j.X)), SetBytes(Decoded(j.Y)))
      [] j.KTY = KeyTypeOKP -> Ed25519PublicKey(Decoded(j.X))
      [] j.KTY = KeyTypeRSA ->
            RSAPublicKey(SetBytes(Decoded(j.N)), SetBytes(Decoded(j.E)))

\* a record whose public fields are present and well formed
ValidPublic(j) ==
    CASE j.KTY = KeyTypeEC ->
            /\ j.CRV \in Curves
            /\ j.X # <<>> /\ Decodes(j.X)
            /\ j.Y # <<>> /\ Decodes(j.Y)
      [] j.KTY = KeyTypeOKP ->
            /\ j.CRV = CurveEd25519
            /\ Decodes(j.X) /\ Len(Decoded(j.X)) = PublicKeySize
      [] j.KTY = KeyTypeRSA ->
            /\ j.N # <<>> /\ Decodes(j.N)
            /\ j.E # <<>> /\ Decodes(j.E)
      [] OTHER -> FALSE

\* the private fields that reconstruction needs are not all there
PrivateMissing(j) ==
    IF j.KTY = KeyTypeRSA THEN \E f \in PrivateFields : j[f] = <<>>
    ELSE j.D = <<>>

\* the key material that KeyMarshal emits for a key under the options
Emitted(key, options) ==
    CASE key.type = "*ecdsa.PrivateKey" /\ ~options.AsymmetricPrivate ->
            ECPublicKey(key.Curve, key.X, key.Y)
      [] key.type = "ed25519.PrivateKey" /\ ~options.AsymmetricPrivate ->
            Ed25519PublicKey(Ed25519Public(key.bytes))
      [] key.type = "*rsa.PrivateKey" /\ ~options.AsymmetricPrivate ->
            RSAPublicKey(key.N, key.E)
      [] OTHER -> key

\* C1: a key that KeyMarshal accepted comes back from KeyUnmarshal as the
\* material that was emitted, with its KeyID, whenever the unmarshal options
\* ask for at least what the marshal options emitted.
C1_RoundTrip ==
    (/\ RoundTripDone
     /\ mopts.AsymmetricPrivate => uopts.AsymmetricPrivate
     /\ mopts.Symmetric => uopts.Symmetric)
    => /\ uerr = ErrNone
       /\ umeta = [Key |-> Emitted(meta.Key, mopts), KeyID |-> meta.KeyID]

\* C2: with AsymmetricPrivate set, a record with valid public fields that
\* lacks the private fields is unmarshalled to its public key.
C2_PublicWhenPrivateAbsent ==
    (/\ UnmarshalDone
     /\ uopts.AsymmetricPrivate
     /\ ValidPublic(jwk)
     /\ PrivateMissing(jwk))
    => /\ uerr = ErrNone
       /\ umeta.Key = PublicOf(jwk)

\* C3: with AsymmetricPrivate clear, every EC, OKP or RSA record that
\* KeyUnmarshal accepts gives the public key of its public fields, whatever
\* private fields it carries.
C3_NoPrivateKeyUnlessAsked ==
    (/\ UnmarshalDone
     /\ ~uopts.AsymmetricPrivate
     /\ jwk.KTY \in AsymmetricKTY
     /\ uerr = ErrNone)
    => /\ umeta.Key.type \in {"*ecdsa.PublicKey", "ed25519.PublicKey", "*rsa.PublicKey"}
       /\ umeta.Key = PublicOf(jwk)

C3_Witness ==
    /\ UnmarshalDone
    /\ ~uopts.AsymmetricPrivate
    /\ jwk.KTY = KeyTypeRSA
    /\ \A f \in PrivateFields : jwk[f] # <<>>
    /\ jwk.OTH # <<>>
    /\ uerr = ErrNone
    /\ umeta.Key.type = "*rsa.PublicKey"

\* the public fields of the record of a key
PublicFieldsEmitted(key, j) ==
    CASE key.type \in {"*ecdsa.PrivateKey", "*ecdsa.PublicKey"} ->
            /\ j.KTY = KeyTypeEC /\ j.CRV = key.Curve
            /\ j.X # <<>> /\ SetBytes(Decoded(j.X)) = key.X
            /\ j.Y # <<>> /\ SetBytes(Decoded(j.Y)) = key.Y
      [] key.type = "ed25519.PrivateKey" ->
            /\ j.KTY = KeyTypeOKP /\ j.CRV = CurveEd25519
            /\ j.X # <<>> /\ Decoded(j.X) = Ed25519Public(key.bytes)
      [] key.type = "ed25519.PublicKey" ->
            /\ j.KTY = KeyTypeOKP /\ j.CRV = CurveEd25519
            /\ j.X # <<>> /\ Decoded(j.X) = key.bytes
      [] key.type \in {"*rsa.PrivateKey", "*rsa.PublicKey"} ->
            /\ j.KTY = KeyTypeRSA
            /\ j.N # <<>> /\ SetBytes(Decoded(j.N)) = key.N
            /\ j.E # <<>> /\ SetBytes(Decoded(j.E)) = key.E

\* C4: with AsymmetricPrivate clear, the record KeyMarshal returns for an
\* EC, Ed25519 or RSA key has no d, p, q, dp, dq, qi or oth, and has the
\* public fields of the key.
C4_PublicOnlyRecord ==
    (/\ MarshalDone
     /\ ~mopts.AsymmetricPrivate
     /\ meta.Key.type \in AsymmetricTypes)
    => /\ \A f \in PrivateFields : jwk[f] = <<>>
       /\ jwk.OTH = <<>>
       /\ PublicFieldsEmitted(meta.Key, jwk)

C4_Witness ==
    /\ MarshalDone
    /\ ~mopts.AsymmetricPrivate
    /\ meta.Key = RSAKey105
    /\ jwk.N # <<>>

\* C5: without Symmetric, KeyMarshal of raw bytes and KeyUnmarshal of an oct
\* record both fail with UnsupportedKeyType and return nothing, whatever the
\* secret, "k" and AsymmetricPrivate are.
C5_SymmetricGating ==
    /\ (/\ origin = "KeyMarshal"
        /\ meta.Key.type = "[]byte"
        /\ ~mopts.Symmetric)
       => (merr = ErrUnsupportedKeyType /\ jwk = EmptyJWK)
    /\ (/\ UnmarshalDone
        /\ jwk.KTY = KeyTypeOct
        /\ ~uopts.Symmetric)
       => (uerr = ErrUnsupportedKeyType /\ umeta = NoMeta)

C5_Witness ==
    /\ UnmarshalDone
    /\ jwk.KTY = KeyTypeOct
    /\ jwk.K # <<>>
    /\ Decodes(jwk.K)
    /\ ~uopts.Symmetric
    /\ uopts.AsymmetricPrivate
    /\ uerr = ErrUnsupportedKeyType

\* C6, as stated: an oct record is unmarshalled only with Symmetric set and
\* a non-empty "k", and every other combination fails with
\* UnsupportedKeyType.
C6_OctOtherwiseUnsupported ==
    (UnmarshalDone /\ jwk.KTY = KeyTypeOct)
    => /\ uerr = ErrNone => (uopts.Symmetric /\ jwk.K # <<>>)
       /\ ~(uopts.Symmetric /\ jwk.K # <<>>) => uerr = ErrUnsupportedKeyType

\* C6, amended: an oct record is unmarshalled only with Symmetric set and a
\* non-empty "k"; without Symmetric it fails with UnsupportedKeyType, and
\* with Symmetric and an empty "k" it fails with KeyUnmarshalParameter.
C6_OctFailureKinds ==
    (UnmarshalDone /\ jwk.KTY = KeyTypeOct)
    => /\ uerr = ErrNone => (uopts.Symmetric /\ jwk.K # <<>>)
       /\ ~uopts.Symmetric => uerr = ErrUnsupportedKeyType
       /\ (uopts.Symmetric /\ jwk.K = <<>>) => uerr = ErrKeyUnmarshalParameter
       /\ uerr # ErrNone => umeta = NoMeta

C6_Witness ==
    /\ UnmarshalDone
    /\ jwk.KTY = KeyTypeOct
    /\ uopts.Symmetric
    /\ jwk.K = <<>>
    /\ uerr = ErrKeyUnmarshalParameter

\* C7: every error of KeyUnmarshal is a KeyUnmarshalParameter or an
\* UnsupportedKeyType, and an EC record whose x or y is present but is not
\* base64url fails with KeyUnmarshalParameter.
C7_ErrorKinds ==
    UnmarshalDone
    => /\ uerr \in {ErrNone, ErrKeyUnmarshalParameter, ErrUnsupportedKeyType}
       /\ (/\ jwk.KTY = KeyTypeEC
           /\ (jwk.X # <<>> /\ ~Decodes(jwk.X)) \/ (jwk.Y # <<>> /\ ~Decodes(jwk.Y)))
          => uerr = ErrKeyUnmarshalParameter

\* the record has n, e and the six private fields, all of them base64url,
\* and well-formed oth entries
RSAPrivateDecodable(j) ==
    /\ j.KTY = KeyTypeRSA
    /\ \A f \in {"N", "E"} \cup PrivateFields : j[f] # <<>> /\ Decodes(j[f])
    /\ \A i \in 1..Len(j.OTH) : OtherPrimesErr(j.OTH[i]) = ErrNone

\* C8: when the RSA private key rebuilt from a record with all six private
\* fields fails the consistency check, KeyUnmarshal returns no key and a
\* KeyUnmarshalParameter error.
C8_ValidateFailureKind ==
    (/\ UnmarshalDone
     /\ uopts.AsymmetricPrivate
     /\ RSAPrivateDecodable(jwk)
     /\ ~Validate(ReconstructRSAPrivate(jwk, PublicOf(jwk))))
    => /\ umeta = NoMeta
       /\ uerr = ErrKeyUnmarshalParameter

\* C9: an EC record whose crv is not P-256, P-384 or P-521, or whose x or y
\* is missing, fails with KeyUnmarshalParameter and gives no key, under
\* every option setting.
C9_ECCurveAndCoordinates ==
    (/\ UnmarshalDone
     /\ jwk.KTY = KeyTypeEC
     /\ jwk.CRV \notin Curves \/ jwk.X = <<>> \/ jwk.Y = <<>>)
    => /\ uerr = ErrKeyUnmarshalParameter
       /\ umeta = NoMeta

SnapshotRecord(i) ==
    KeyMarshalOf(revision, snapshot[i],
                 [AsymmetricPrivate |-> FALSE, Symmetric |-> FALSE])
\* the keys of the snapshot that KeyMarshal accepts, rejects as unsupported,
\* and panics on
Accepted == {i \in 1..Len(snapshot) : SnapshotRecord(i).err = ErrNone}
Rejected ==
    {i \in 1..Len(snapshot) : SnapshotRecord(i).err = ErrUnsupportedKeyType}
Panicking == {i \in 1..Len(snapshot) : SnapshotRecord(i).err = Panic}
\* the place of the i-th key's record among the records of the accepted keys
Rank(i) == Cardinality({k \in Accepted : k <= i})

\* C11: when the snapshot is read, JWKSet.JSON does not abort on the keys
\* that KeyMarshal rejects as unsupported, and its keys list is the records
\* of the keys KeyMarshal accepts (public only), in snapshot order; when the
\* snapshot read fails there is an error and no document.
C11_KeySetAssembly ==
    JSONDone
    => /\ snapshotFailed => (jerr = ErrSnapshot /\ jwks = <<>>)
       /\ (~snapshotFailed /\ Panicking = {})
          => /\ jerr = ErrNone
             /\ Len(jwks) = Cardinality(Accepted)
             /\ \A i \in Accepted : jwks[Rank(i)] = SnapshotRecord(i).jwk
       /\ (~snapshotFailed /\ jerr # ErrNone) => Panicking # {}

C11_Witness ==
    /\ JSONDone
    /\ ~snapshotFailed
    /\ Len(snapshot) = 2
    /\ Cardinality(Accepted) = 1
    /\ Cardinality(Rejected) = 1
    /\ jerr = ErrNone
    /\ Len(jwks) = 1

\* C12: KeyMarshal never panics: for every key and options it returns a
\* record and no error, or an error and the empty record.
C12_KeyMarshalTotal ==
    origin = "KeyMarshal"
    => /\ merr # Panic
       /\ merr = ErrNone \/ jwk = EmptyJWK

\* s without its trailing "=" characters
WithoutPadding(s) ==
    LET kept == {i \in 1..Len(s) : s[i] # PadChar}
        last == IF kept = {} THEN 0 ELSE CHOOSE i \in kept : \A k \in kept : k <= i
    IN  SubSeq(s, 1, last)

StringFields == {"X", "Y", "D", "N", "E", "P", "Q", "DP", "DQ", "QI", "K"}

\* the record with the trailing "=" characters of every field removed
Unpadded(j) ==
    [f \in DOMAIN j |->
        IF f \in StringFields THEN WithoutPadding(j[f])
        ELSE IF f = "OTH"
        THEN [i \in 1..Len(j.OTH) |->
                 [D |-> WithoutPadding(j.OTH[i].D),
                  T |-> WithoutPadding(j.OTH[i].T),
                  R |-> WithoutPadding(j.OTH[i].R)]]
        ELSE j[f]]

\* every field is decoded as the field without its trailing "=" is
PaddingIgnoredByDecoder(j) ==
    /\ \A f \in StringFields :
          base64urlTrailingPadding(j[f]) = DecodeString(WithoutPadding(j[f]))
    /\ \A i \in 1..Len(j.OTH) : \A f \in {"D", "T", "R"} :
          base64urlTrailingPadding(j.OTH[i][f])
              = DecodeString(WithoutPadding(j.OTH[i][f]))

\* no field is made of "=" characters alone
NoFieldOnlyPadding(j) ==
    /\ \A f \in StringFields : j[f] # <<>> => WithoutPadding(j[f]) # <<>>
    /\ \A i \in 1..Len(j.OTH) : \A f \in {"D", "T", "R"} :
          j.OTH[i][f] # <<>> => WithoutPadding(j.OTH[i][f]) # <<>>

\* C13, as stated: a field followed by trailing "=" decodes as the field
\* itself, and KeyUnmarshal gives for a record with padded fields what it
\* gives for the unpadded record.
C13_PaddingTolerance ==
    UnmarshalDone
    => /\ PaddingIgnoredByDecoder(jwk)
       /\ [meta |-> umeta, err |-> uerr] = KeyUnmarshal(Unpadded(jwk), uopts)

\* C13, amended: a field followed by trailing "=" decodes as the field
\* itself, and KeyUnmarshal gives for a record with padded fields what it
\* gives for the unpadded record, provided no field consists of "=" alone
\* (such a field counts as present, the empty field as missing).
C13_PaddingToleranceNonEmpty ==
    UnmarshalDone
    => /\ PaddingIgnoredByDecoder(jwk)
       /\ NoFieldOnlyPadding(jwk)
          => [meta |-> umeta, err |-> uerr] = KeyUnmarshal(Unpadded(jwk), uopts)

C13_Witness ==
    /\ UnmarshalDone
    /\ jwk.KTY = KeyTypeEC
    /\ Len(jwk.X) = Len(WithoutPadding(jwk.X)) + 2
    /\ Len(jwk.Y) = Len(WithoutPadding(jwk.Y)) + 1
    /\ uerr = ErrNone
    /\ umeta.Key.X = SetBytes(DecodeString(WithoutPadding(jwk.X)).bytes)
    /\ umeta.Key.X > 0

\* C14: with AsymmetricPrivate set, the record of an RSA private key has
\* the first two primes as p and q and one oth entry for each further
\* prime, whose r encodes that prime.
C14_OtherPrimesInPrimeOrder ==
    (/\ MarshalDone
     /\ mopts.AsymmetricPrivate
     /\ meta.Key.type = "*rsa.PrivateKey"
     /\ Len(meta.Key.Primes) >= 2)
    => /\ jwk.P = bigIntToBase64RawURL(meta.Key.Primes[1])
       /\ jwk.Q = bigIntToBase64RawURL(meta.Key.Primes[2])
       /\ Len(jwk.OTH) = Len(meta.Key.Primes) - 2
       /\ \A i \in 1..Len(jwk.OTH) :
             jwk.OTH[i].R = bigIntToBase64RawURL(meta.Key.Primes[i + 2])

\* C15: no record of the key set that JWKSet.JSON produces carries d, p, q,
\* dp, dq, qi, oth or k, and raw byte keys are dropped from the set.
C15_KeySetPublicOnly ==
    (JSONDone /\ jerr = ErrNone)
    => /\ \A i \in 1..Len(jwks) :
             /\ \A f \in PrivateFields \cup {"K"} : jwks[i][f] = <<>>
             /\ jwks[i].OTH = <<>>
             /\ jwks[i].KTY # KeyTypeOct
       /\ Len(jwks) <= Cardinality({i \in 1..Len(snapshot) :
                                       snapshot[i].Key.type # "[]byte"})

C15_Witness ==
    /\ JSONDone
    /\ jerr = ErrNone
    /\ Len(snapshot) = 2
    /\ snapshot[1].Key.type = "[]byte"
    /\ snapshot[2].Key = RSAKey105
    /\ Len(jwks) = 1
    /\ jwks[1].KTY = KeyTypeRSA

====
